---- MODULE Spec2Model ----
(***************************************************************************)
(* The order lifecycle of the seminar backend: checkout initiation writes  *)
(* a pending row to the spreadsheet, the Stripe webhook updates the row    *)
(* and sends the confirmation email.                                       *)
(*                                                                         *)
(* The repository holds two application files, src/index.js and            *)
(* src/unnamed/part_000.  The variable impl says which of the two is the   *)
(* running application; every handler is translated from both files and    *)
(* branches on impl where they differ.                                     *)
(*                                                                         *)
(* Spec is the lifecycle of the orders made through the unified checkout   *)
(* route, in runs of MaxRequests requests.  SpecApi has every route that   *)
(* writes to the sheet, the ticket and book checkout routes and the two    *)
(* /api/tickets routes as well, in runs of MaxApiRequests requests; the    *)
(* variable limit holds the bound of the run.  The GET routes, which only  *)
(* read, are left out.                                                     *)
(*                                                                         *)
(* Every request is a task in one of the slots of TaskIds.  A task         *)
(* advances one step per resolved await of its handler, so the steps of    *)
(* two requests interleave exactly where the event loop can interleave     *)
(* them.  Stripe, the spreadsheet and the mail transport are external:     *)
(* each call to them either resolves or rejects, chosen freely.            *)
(*                                                                         *)
(* A rejected store call leaves the sheet as it was.  Stripe delivers any   *)
(* event type for any session it holds, any number of times, and a request *)
(* with a signature that does not match may carry anything.  The random    *)
(* suffix of an order reference is taken to be fresh: the n-th checkout    *)
(* gets the reference numbered n.  A session of mode payment carries a     *)
(* payment intent: session.payment_intent is never empty.  Stripe creates  *)
(* no session for a line item of a quantity below 1.                       *)
(*                                                                         *)
(* SpecRetry is one checkout whose completed event Stripe delivers again   *)
(* until it is acknowledged.  SpecStartup is the load of the application   *)
(* file under any configuration; SpecSheets is initializeGoogleSheets of   *)
(* part_000 under the store operations that call it, which the other       *)
(* specifications fold into a store call that resolves or rejects.  Every  *)
(* specification but SpecStartup starts after the load.                    *)
(*                                                                         *)
(* Left out of the rows: customer_name and customer_phone, which no        *)
(* handler reads back.                                                     *)
(***************************************************************************)
EXTENDS Integers, Sequences, FiniteSets, TLC

VARIABLES
  impl,        \* which application file is running
  process,     \* process.env as far as it is read, and how the load ended
  googleSheetAuthInitialized, \* the flag of initializeGoogleSheets
  doc,         \* the GoogleSpreadsheet instance doc refers to, 0 for undefined
  instances,   \* the GoogleSpreadsheet instances created so far
  inits,       \* the calls of initializeGoogleSheets, in flight or returned
  sheet,       \* the rows of sheet 0 of the spreadsheet, in row order
  sessions,    \* the checkout sessions Stripe holds for this account
  outbox,      \* order reference -> number of mails the transport accepted
  clock,       \* the value of Date.now()
  nCheckouts,  \* checkout requests received so far
  nDeliveries, \* webhook requests received so far
  nDirect,     \* requests to /api/tickets received so far
  limit,       \* requests the run receives at most
  tasks        \* the requests in flight, and the last finished one per slot

googleVars == <<googleSheetAuthInitialized, doc, instances, inits>>

vars == <<impl, process, googleVars, sheet, sessions, outbox, clock, nCheckouts, nDeliveries,
          nDirect, limit, tasks>>

(***************************************************************************)
(* Bounds of the model.                                                    *)
(***************************************************************************)
MaxRequests == 3         \* requests received in a run of Spec
MaxApiRequests == 2      \* requests received in a run of SpecApi
MaxRetryCheckouts == 1   \* checkouts in a run of SpecRetry
MaxStartupRequests == 1  \* requests received in a run of SpecStartup
MaxInitCalls == 3        \* store operations in a run of SpecSheets

TaskIds == {1, 2}
Times == {0, 1}            \* the values Date.now() takes
Quantities == {-1, 0, 2}   \* the quantities a client asks for
Impls == {"index", "part_000"}

(***************************************************************************)
(* Program constants.                                                      *)
(***************************************************************************)
TicketUnitAmount == 2500
BookUnitAmount == 1999
TicketPrices == {25}        \* ticketPrice a client sends, in pounds
BookPrices == {15, 20}      \* bookPrice a client sends, in pounds
ShippingPrices == {0, 3}    \* shippingPrice a client sends, in pounds

CustomerEmail == "alice@example.com"
Undefined == "undefined"      \* a property that is absent from an object

EventTypes == {"checkout.session.completed", "checkout.session.expired",
               "payment_intent.created"}

(***************************************************************************)
(* Express middleware.  A body parser reads the request stream unless an   *)
(* earlier parser has already set req.body (req._body).  express.json()    *)
(* leaves a parsed object, express.raw() leaves the bytes in a Buffer.     *)
(***************************************************************************)
WebhookMiddleware(i) ==
  IF i = "part_000" THEN <<"raw", "json">> ELSE <<"json", "raw">>

ApplyParser(p, body) ==
  IF body # "stream" THEN body
  ELSE IF p = "raw" THEN "buffer" ELSE "object"

RECURSIVE RunMiddleware(_, _)
RunMiddleware(chain, body) ==
  IF chain = <<>> THEN body
  ELSE RunMiddleware(Tail(chain), ApplyParser(Head(chain), body))

\* A variant of constructEvent that does not check the signature.
ConstructEventUnchecked(body, sigValid) == body = "buffer"

\* stripe.webhooks.constructEvent: returns the event when the payload is the
\* raw bytes and the signature over them matches, throws otherwise.
ConstructEventOk(body, sigValid) == body = "buffer" /\ sigValid

(***************************************************************************)
(* Records.                                                                *)
(***************************************************************************)
NoSession ==
  [id |-> "", orderRef |-> "", productType |-> "", quantity |-> 0,
   amount_total |-> 0, customer_email |-> "", payment_intent |-> ""]

\* A session of the same Stripe account that no checkout of this program
\* made: its metadata has no orderRef and no productType.
ForeignSession ==
  [id |-> "cs_foreign", orderRef |-> Undefined, productType |-> Undefined,
   quantity |-> 1, amount_total |-> 1000, customer_email |-> CustomerEmail,
   payment_intent |-> "pi_foreign"]

NoRow ==
  [order_reference |-> "", customer_email |-> "", quantity |-> 0,
   amount_total |-> 0, stripe_session_id |-> "",
   stripe_payment_intent_id |-> "", status |-> "", product_type |-> "",
   shipping_address |-> "", shipping_city |-> "", shipping_postcode |-> "",
   created_at |-> 0, updated_at |-> 0]

NoReq ==
  [quantity |-> 0, productType |-> "", address |-> "", city |-> "",
   postcode |-> "", ticketPrice |-> 0, bookPrice |-> 0, shippingPrice |-> 0]

NoUpdates == [updated_at |-> 0]

IdleTask ==
  [kind |-> "idle", pc |-> "idle", resp |-> 0,
   req |-> NoReq, orderRef |-> "", session |-> NoSession,
   etype |-> "", sigValid |-> FALSE, verified |-> FALSE,
   paymentIntentId |-> "", updates |-> NoUpdates,
   rowIdx |-> 0, row |-> NoRow,
   piError |-> FALSE, update |-> "none", saved |-> FALSE,
   mailCalls |-> 0, mailFailed |-> FALSE,
   resSessionId |-> "", resOrderRef |-> ""]

\* req.body of POST /api/create-checkout-session.
CheckoutRequests ==
  [quantity : Quantities,
   productType : {"ticket", "book", "other"},
   address : {"", "1 High St"}, city : {"", "Belfast"},
   postcode : {"", "BT1"},
   ticketPrice : TicketPrices, bookPrice : {0}, shippingPrice : {0}]

\* req.body of POST /api/create-ticket-checkout-session: the handler reads
\* the quantity, and no shipping field whatever the client sends.
TicketCheckoutRequests ==
  [quantity : Quantities, productType : {""},
   address : {"", "1 High St"}, city : {""}, postcode : {""},
   ticketPrice : TicketPrices, bookPrice : {0}, shippingPrice : {0}]

\* req.body of POST /api/create-book-checkout-session.
BookCheckoutRequests ==
  [quantity : Quantities, productType : {""},
   address : {"", "1 High St"}, city : {"", "Belfast"},
   postcode : {"", "BT1"},
   ticketPrice : {0}, bookPrice : BookPrices, shippingPrice : ShippingPrices]

\* Of the request body, what the handler reads again after validation:
\* part_000 reads the shipping fields of a book only, index.js reads
\* quantity and ticketPrice.
Retained(i, req) ==
  IF i = "part_000" /\ req.productType = "book" THEN req
  ELSE IF i = "part_000"
  THEN [req EXCEPT !.address = "", !.city = "", !.postcode = ""]
  ELSE [NoReq EXCEPT !.quantity = req.quantity, !.ticketPrice = req.ticketPrice]

\* The same for the ticket route of part_000, whose product is the ticket.
RetainedTicket(req) ==
  [NoReq EXCEPT !.quantity = req.quantity, !.productType = "ticket"]

\* The same for the book route: part_000 reads the quantity and the shipping
\* fields, index.js the shipping fields and the two prices, and sells one
\* book per order.
RetainedBook(i, req) ==
  IF i = "part_000"
  THEN [req EXCEPT !.productType = "book", !.bookPrice = 0, !.shippingPrice = 0]
  ELSE [req EXCEPT !.productType = "book", !.quantity = 1]

(***************************************************************************)
(* The load of the application file.                                       *)
(***************************************************************************)
\* const requiredEnvVars = [...]
RequiredEnvVars ==
  {"STRIPE_SECRET_KEY", "GOOGLE_SERVICE_ACCOUNT_KEY", "GOOGLE_SHEETS_ID",
   "GOOGLE_SERVICE_ACCOUNT_EMAIL", "EMAIL_USER", "EMAIL_PASSWORD"}

\* What a call to the spreadsheet needs of process.env.
GoogleEnvVars ==
  {"GOOGLE_SERVICE_ACCOUNT_KEY", "GOOGLE_SHEETS_ID",
   "GOOGLE_SERVICE_ACCOUNT_EMAIL"}

\* The process before its application file is loaded: env is the set of the
\* required variables that are set.
Processes ==
  [env : SUBSET RequiredEnvVars, NODE_ENV : {"production", "development"},
   phase : {"start"}, reported : {FALSE}]

\* A process with its whole configuration, after the load.
Configured ==
  [env |-> RequiredEnvVars, NODE_ENV |-> "production",
   phase |-> "serving", reported |-> FALSE]

\* The outcomes of the load.  part_000 logs the missing variables and goes
\* on to export the app (and to listen, outside production).  index.js
\* hands process.env.STRIPE_SECRET_KEY to the Stripe constructor, which
\* throws or does not throw on undefined, depending on the library version;
\* it throws when GOOGLE_SERVICE_ACCOUNT_KEY gives no private key, and
\* reads no other variable before app.listen.
Loaded(i, p) ==
  IF i = "part_000"
  THEN {[p EXCEPT !.phase = "serving",
                  !.reported = (RequiredEnvVars \ p.env # {})]}
  ELSE {IF stripeThrows \/ "GOOGLE_SERVICE_ACCOUNT_KEY" \notin p.env
        THEN [p EXCEPT !.phase = "crashed", !.reported = TRUE]
        ELSE [p EXCEPT !.phase = "serving"] :
          stripeThrows \in IF "STRIPE_SECRET_KEY" \in p.env
                           THEN {FALSE} ELSE {TRUE, FALSE}}

\* node runs the application file from its first line to its last.
LoadModule ==
  /\ process.phase = "start"
  /\ process' \in Loaded(impl, process)
  /\ UNCHANGED <<impl, googleVars, sheet, sessions, outbox, clock, nCheckouts,
                 nDeliveries, nDirect, limit, tasks>>

\* The handlers can be reached: the load came to module.exports = app.
Serving == process.phase = "serving"

(***************************************************************************)
(* initializeGoogleSheets of part_000, and the store operations that call  *)
(* it.                                                                     *)
(***************************************************************************)
\* The store operations that can be in flight at once.
CallIds == {1, 2}

\* A store operation that has not called initializeGoogleSheets.  Of a
\* caller the record keeps how many operations it has made (calls), whether
\* the one before this ended with the error of the initialization
\* (threwBefore), whether this one ran the initialization (ranInit), the
\* instance its pending await was called on (target) and the instance it
\* used afterwards (usedDoc).
IdleCall ==
  [pc |-> "idle", target |-> 0, calls |-> 0, ranInit |-> FALSE,
   threwBefore |-> FALSE, usedDoc |-> 0]

\* let googleSheetAuthInitialized = false; let doc;
GoogleInit ==
  /\ googleSheetAuthInitialized = FALSE
  /\ doc = 0
  /\ instances = <<>>
  /\ inits = [c \in CallIds |-> IdleCall]

\* new GoogleSpreadsheet(process.env.GOOGLE_SHEETS_ID)
NewInstance == [authed |-> FALSE, loaded |-> FALSE]

\* A variant of the catch block that leaves the flag as it is.
InitializeCatchKeepingFlag(c, call) ==
  /\ UNCHANGED googleSheetAuthInitialized
  /\ inits' = [inits EXCEPT ![c] = [call EXCEPT !.pc = "threw", !.target = 0]]

\* catch (error) { googleSheetAuthInitialized = false; throw error; }: the
\* store operation that awaits the call ends with the error.
InitializeCatch(c, call) ==
  /\ googleSheetAuthInitialized' = FALSE
  /\ inits' = [inits EXCEPT ![c] = [call EXCEPT !.pc = "threw", !.target = 0]]

\* A store operation calls initializeGoogleSheets: the early return on the
\* flag, or the checks of process.env and doc = new GoogleSpreadsheet(...),
\* up to await doc.useServiceAccountAuth(...).
InitializeGoogleSheets(c) ==
  /\ inits[c].pc \in {"idle", "done", "threw"}
  /\ inits[1].calls + inits[2].calls < limit
  /\ LET call == [inits[c] EXCEPT !.calls = @ + 1, !.usedDoc = 0,
                                  !.threwBefore = (inits[c].pc = "threw")]
     IN IF googleSheetAuthInitialized
        THEN /\ inits' = [inits EXCEPT ![c] =
                  [call EXCEPT !.pc = "use", !.ranInit = FALSE]]
             /\ UNCHANGED <<googleSheetAuthInitialized, doc, instances>>
        ELSE IF ~(GoogleEnvVars \subseteq process.env)
        THEN /\ InitializeCatch(c, [call EXCEPT !.ranInit = TRUE])
             /\ UNCHANGED <<doc, instances>>
        ELSE /\ instances' = Append(instances, NewInstance)
             /\ doc' = Len(instances) + 1
             /\ inits' = [inits EXCEPT ![c] =
                  [call EXCEPT !.pc = "auth", !.ranInit = TRUE,
                               !.target = Len(instances) + 1]]
             /\ UNCHANGED googleSheetAuthInitialized
  /\ UNCHANGED <<impl, process, sheet, sessions, outbox, clock, nCheckouts,
                 nDeliveries, nDirect, limit, tasks>>

\* await doc.useServiceAccountAuth(...) of call c settles.  When it
\* resolves, the instance it was called on is authenticated and the call
\* goes on to doc.loadInfo(): on the instance doc refers to by now.
UseServiceAccountAuth(c) ==
  /\ inits[c].pc = "auth"
  /\ \/ /\ instances' = [instances EXCEPT ![inits[c].target].authed = TRUE]
        /\ inits' = [inits EXCEPT ![c] =
             [@ EXCEPT !.pc = "loadInfo", !.target = doc]]
        /\ UNCHANGED googleSheetAuthInitialized
     \/ /\ InitializeCatch(c, inits[c])
        /\ UNCHANGED instances
  /\ UNCHANGED <<impl, process, doc, sheet, sessions, outbox, clock, nCheckouts,
                 nDeliveries, nDirect, limit, tasks>>

\* await doc.loadInfo() of call c settles; when it resolves,
\* googleSheetAuthInitialized = true and the call returns.  The library
\* decides what loadInfo does on an instance whose authentication has not
\* completed: it may resolve or reject.
LoadInfo(c) ==
  /\ inits[c].pc = "loadInfo"
  /\ \/ /\ instances' = [instances EXCEPT ![inits[c].target].loaded = TRUE]
        /\ googleSheetAuthInitialized' = TRUE
        /\ inits' = [inits EXCEPT ![c] = [@ EXCEPT !.pc = "use", !.target = 0]]
     \/ /\ InitializeCatch(c, inits[c])
        /\ UNCHANGED instances
  /\ UNCHANGED <<impl, process, doc, sheet, sessions, outbox, clock, nCheckouts,
                 nDeliveries, nDirect, limit, tasks>>

\* The store operation goes on after await initializeGoogleSheets(): it
\* uses the instance doc refers to.
UseDoc(c) ==
  /\ inits[c].pc = "use"
  /\ inits' = [inits EXCEPT ![c] = [@ EXCEPT !.pc = "done", !.usedDoc = doc]]
  /\ UNCHANGED <<impl, process, googleSheetAuthInitialized, doc, instances,
                 sheet, sessions, outbox, clock, nCheckouts, nDeliveries,
                 nDirect, limit, tasks>>

\* A request takes the first slot that holds no request in flight.
SlotFree(t) ==
  /\ tasks[t].pc \in {"idle", "done"}
  /\ \A u \in TaskIds : u < t => tasks[u].pc \notin {"idle", "done"}

\* new Date(): the clock may have advanced since it was last read.
Nows == {clock, clock + 1} \cap Times

\* The response is sent and the handler returns: its locals are gone, what
\* stays in the slot is the record of what the request was and did.
Finish(task, status) ==
  [IdleTask EXCEPT !.kind = task.kind, !.pc = "done", !.resp = status,
     !.orderRef = task.orderRef, !.etype = task.etype,
     !.sigValid = task.sigValid, !.verified = task.verified,
     !.update = task.update, !.saved = task.saved,
     !.mailCalls = task.mailCalls, !.mailFailed = task.mailFailed]

\* A request arrives in slot t: the records of the requests that have
\* finished are dropped.
Arrive(t, task) ==
  [u \in TaskIds |->
     IF u = t THEN task
     ELSE IF tasks[u].pc = "done" THEN IdleTask ELSE tasks[u]]

(***************************************************************************)
(* The spreadsheet.                                                        *)
(***************************************************************************)
\* rows.find(r => r.get('order_reference') === orderRef): the first match,
\* 0 for undefined.
FindRow(sh, ref) ==
  LET S == {i \in 1..Len(sh) : sh[i].order_reference = ref}
  IN IF S = {} THEN 0 ELSE CHOOSE i \in S : \A j \in S : i <= j

\* A variant of the update that is not safe to apply twice: setting the
\* status a row already has marks the row as a duplicate.
ApplyUpdatesMarkingRepeats(row, updates) ==
  [f \in DOMAIN row |->
     IF f \notin DOMAIN updates THEN row[f]
     ELSE IF f = "status" /\ row.status = updates.status THEN "duplicate"
     ELSE updates[f]]

\* for (const [key, value] of Object.entries(updates)) row.set(key, value)
ApplyUpdates(row, updates) ==
  [f \in DOMAIN row |-> IF f \in DOMAIN updates THEN updates[f] ELSE row[f]]

\* sheet.addRow({...}) of addToGoogleSheets, with its defaults.
NewRow(data) ==
  [order_reference |-> data.order_reference,
   customer_email |-> data.customer_email,
   quantity |-> IF data.quantity = 0 THEN 1 ELSE data.quantity,
   amount_total |-> data.amount_total,
   stripe_session_id |-> data.stripe_session_id,
   stripe_payment_intent_id |-> data.stripe_payment_intent_id,
   status |-> data.status,
   product_type |-> IF data.product_type = "" THEN "ticket" ELSE data.product_type,
   shipping_address |-> data.shipping_address,
   shipping_city |-> data.shipping_city,
   shipping_postcode |-> data.shipping_postcode,
   created_at |-> data.created_at,
   updated_at |-> data.updated_at]

(***************************************************************************)
(* POST /api/create-checkout-session                                       *)
(***************************************************************************)
ValidCheckout(i, req) ==
  IF i = "part_000"
  THEN /\ req.quantity >= 1
       /\ req.productType \in {"ticket", "book"}
       /\ (req.productType = "book" =>
             req.address # "" /\ req.city # "" /\ req.postcode # "")
  ELSE req.quantity # 0 /\ req.ticketPrice # 0

OrderRefFor(i, req, n) ==
  IF i = "part_000"
  THEN (IF req.productType = "book" THEN "BOOK-" ELSE "TIX-") \o ToString(n)
  ELSE (IF req.productType = "book" THEN "BOOK-" ELSE "ORDER-") \o ToString(n)

\* The validation of the ticket route (part_000 only).
ValidTicketCheckout(req) == req.quantity >= 1

\* The validation of the book route.
ValidBookCheckout(i, req) ==
  IF i = "part_000"
  THEN /\ req.quantity >= 1
       /\ req.address # "" /\ req.city # "" /\ req.postcode # ""
  ELSE /\ req.address # "" /\ req.city # "" /\ req.postcode # ""
       /\ req.bookPrice # 0 /\ req.shippingPrice # 0

\* unit_amount of the product's line item, in pence; req is what the handler
\* retained of the request.
UnitAmount(i, req) ==
  IF i = "part_000"
  THEN (IF req.productType = "book" THEN BookUnitAmount ELSE TicketUnitAmount)
  ELSE IF req.productType = "book" THEN req.bookPrice * 100
  ELSE req.ticketPrice * 100

\* unit_amount of the second line item of the book route of index.js, 'UK
\* Shipping', of quantity 1; no other route has a second line item.
ShippingUnitAmount(i, req) ==
  IF i = "index" /\ req.productType = "book" THEN req.shippingPrice * 100
  ELSE 0

\* The session stripe.checkout.sessions.create returns for the task's
\* request.  Stripe's identifiers are fresh; they are named after the order
\* reference, which is fresh itself.
NewSession(i, task) ==
  [id |-> "cs_" \o task.orderRef,
   orderRef |-> task.orderRef,
   productType |-> IF i = "part_000" \/ task.req.productType = "book"
                   THEN task.req.productType ELSE Undefined,
   quantity |-> task.req.quantity,
   amount_total |-> UnitAmount(i, task.req) * task.req.quantity
                      + ShippingUnitAmount(i, task.req),
   customer_email |-> CustomerEmail,
   payment_intent |-> "pi_" \o task.orderRef]

\* The argument of addToGoogleSheets in the checkout handler.
PendingOrder(i, task, now) ==
  LET book == task.req.productType = "book"
  IN [order_reference |-> task.orderRef,
      customer_email |-> CustomerEmail,
      quantity |-> task.req.quantity,
      amount_total |-> IF i = "part_000" THEN task.session.amount_total
                       ELSE IF book
                       THEN task.req.bookPrice + task.req.shippingPrice
                       ELSE task.req.ticketPrice * task.req.quantity,
      stripe_session_id |-> task.session.id,
      stripe_payment_intent_id |-> "",
      status |-> "pending",
      product_type |-> IF i = "part_000" \/ book THEN task.req.productType
                       ELSE "ticket",
      shipping_address |-> IF book THEN task.req.address ELSE "",
      shipping_city |-> IF book THEN task.req.city ELSE "",
      shipping_postcode |-> IF book THEN task.req.postcode ELSE "",
      created_at |-> now,
      updated_at |-> now]

\* A checkout handler up to its first await: a request that fails the
\* validation is answered 400; for any other, the order reference is made
\* and stripe.checkout.sessions.create is called with what was retained.
CheckoutTask(valid, retained, i, n) ==
  IF valid
  THEN [IdleTask EXCEPT !.kind = "checkout", !.pc = "stripeCreate",
          !.req = retained, !.orderRef = OrderRefFor(i, retained, n)]
  ELSE Finish([IdleTask EXCEPT !.kind = "checkout"], 400)

UnifiedTask(i, req, n) ==
  CheckoutTask(ValidCheckout(i, req), Retained(i, req), i, n)

TicketTask(i, req, n) ==
  CheckoutTask(ValidTicketCheckout(req), RetainedTicket(req), i, n)

BookTask(i, req, n) ==
  CheckoutTask(ValidBookCheckout(i, req), RetainedBook(i, req), i, n)

\* POST /api/create-checkout-session arrives.
CreateCheckoutSession(t) ==
  /\ Serving
  /\ SlotFree(t)
  /\ nCheckouts + nDeliveries + nDirect < limit
  /\ \E req \in CheckoutRequests :
       /\ nCheckouts' = nCheckouts + 1
       /\ tasks' = Arrive(t, UnifiedTask(impl, req, nCheckouts + 1))
  /\ UNCHANGED <<impl, process, googleVars, sheet, sessions, outbox, clock, nDeliveries, nDirect, limit>>

\* POST /api/create-ticket-checkout-session arrives; index.js has no such
\* route.
CreateTicketCheckoutSession(t) ==
  /\ impl = "part_000"
  /\ Serving
  /\ SlotFree(t)
  /\ nCheckouts + nDeliveries + nDirect < limit
  /\ \E req \in TicketCheckoutRequests :
       /\ nCheckouts' = nCheckouts + 1
       /\ tasks' = Arrive(t, TicketTask(impl, req, nCheckouts + 1))
  /\ UNCHANGED <<impl, process, googleVars, sheet, sessions, outbox, clock, nDeliveries, nDirect, limit>>

\* POST /api/create-book-checkout-session arrives.
CreateBookCheckoutSession(t) ==
  /\ Serving
  /\ SlotFree(t)
  /\ nCheckouts + nDeliveries + nDirect < limit
  /\ \E req \in BookCheckoutRequests :
       /\ nCheckouts' = nCheckouts + 1
       /\ tasks' = Arrive(t, BookTask(impl, req, nCheckouts + 1))
  /\ UNCHANGED <<impl, process, googleVars, sheet, sessions, outbox, clock, nDeliveries, nDirect, limit>>

\* A variant of the step below that goes on to addToGoogleSheets when the
\* gateway call has failed.
StripeSessionsCreateSwallowingError(t) ==
  /\ tasks[t].kind = "checkout"
  /\ tasks[t].pc = "stripeCreate"
  /\ \E now \in Nows :
       LET s == NewSession(impl, tasks[t])
           task == [tasks[t] EXCEPT !.pc = "addRow", !.session = s]
       IN /\ clock' = now
          /\ tasks' = [tasks EXCEPT ![t] =
               [task EXCEPT !.row = PendingOrder(impl, task, now)]]
          /\ \/ sessions' = sessions \cup {s}
             \/ UNCHANGED sessions
  /\ UNCHANGED <<impl, process, googleVars, sheet, outbox, nCheckouts, nDeliveries, nDirect, limit>>

\* await stripe.checkout.sessions.create(...); the handler then builds the
\* argument of addToGoogleSheets, with new Date() for created_at and
\* updated_at, and calls it.  Stripe refuses a line item of a quantity
\* below 1, and getStripe() throws without the secret key.
StripeSessionsCreate(t) ==
  /\ tasks[t].kind = "checkout"
  /\ tasks[t].pc = "stripeCreate"
  /\ \/ \E now \in Nows :
          LET s == NewSession(impl, tasks[t])
              task == [tasks[t] EXCEPT !.pc = "addRow", !.session = s]
          IN /\ tasks[t].req.quantity >= 1
             /\ "STRIPE_SECRET_KEY" \in process.env
             /\ sessions' = sessions \cup {s}
             /\ clock' = now
             /\ tasks' = [tasks EXCEPT ![t] =
                  [task EXCEPT !.row = PendingOrder(impl, task, now)]]
     \/ /\ tasks' = [tasks EXCEPT ![t] = Finish(@, 500)]
        /\ UNCHANGED <<sessions, clock>>
  /\ UNCHANGED <<impl, process, googleVars, sheet, outbox, nCheckouts, nDeliveries, nDirect, limit>>

\* res.json({url, sessionId, orderRef}) of a checkout handler; index.js
\* sends url and sessionId only.
CheckoutResponse(i, task) ==
  [Finish(task, 200) EXCEPT
     !.resSessionId = task.session.id,
     !.resOrderRef = IF i = "part_000" THEN task.orderRef ELSE Undefined]

\* res.json({success: true, order_reference: data.order_reference}) of
\* POST /api/tickets.
TicketsResponse(task) ==
  [Finish(task, 200) EXCEPT !.resOrderRef = task.row.order_reference]

\* await addToGoogleSheets(data), called by the checkout handlers and by
\* POST /api/tickets: sheet.addRow, then the caller's res.json; an error goes
\* to the caller's catch, which answers 500.  Without the credentials of
\* the service account or the id of the spreadsheet the call fails.
AddToGoogleSheets(t) ==
  /\ tasks[t].kind \in {"checkout", "tickets"}
  /\ tasks[t].pc = "addRow"
  /\ \/ /\ GoogleEnvVars \subseteq process.env
        /\ sheet' = Append(sheet, NewRow(tasks[t].row))
        /\ tasks' = [tasks EXCEPT ![t] =
             IF @.kind = "checkout" THEN CheckoutResponse(impl, @)
             ELSE TicketsResponse(@)]
     \/ /\ tasks' = [tasks EXCEPT ![t] = Finish(@, 500)]
        /\ UNCHANGED sheet
  /\ UNCHANGED <<impl, process, googleVars, sessions, outbox, clock, nCheckouts, nDeliveries, nDirect, limit>>

(***************************************************************************)
(* POST /api/webhooks/stripe                                               *)
(***************************************************************************)
\* A variant of the updates object that leaves the payment intent out.
CompletedUpdatesWithoutIntent(i, paymentIntentId, session, now) ==
  [status |-> "completed", updated_at |-> now]

\* The updates object of the checkout.session.completed case.  index.js
\* passes session.payment_intent; part_000 passes
\* paymentIntentId || session.payment_intent || ''.
CompletedUpdates(i, paymentIntentId, session, now) ==
  [status |-> "completed",
   stripe_payment_intent_id |->
     IF i = "part_000"
     THEN (IF paymentIntentId # "" THEN paymentIntentId
           ELSE session.payment_intent)
     ELSE session.payment_intent,
   updated_at |-> now]

\* The updates object of the checkout.session.expired case.
ExpiredUpdates(now) == [status |-> "failed", updated_at |-> now]

\* What the catch block of sendConfirmationEmail does with a transport
\* error: part_000 rethrows it, index.js only logs it.
EmailCatchRethrows(i) == i = "part_000"

\* A variant of the catch block that acknowledges the event.
WebhookCatchAcknowledges(task) == Finish(task, 200)

\* The catch block around the event switch: res.status(500).
WebhookCatch(task) == Finish(task, 500)

\* After updateGoogleSheets has returned: the completed case goes on to the
\* confirmation email, the expired case breaks to res.json({received: true}).
AfterUpdate(task) ==
  IF task.kind = "patch"
  THEN [task EXCEPT !.update = "returned", !.pc = "getFrom"]
  ELSE IF task.etype = "checkout.session.completed"
  THEN [task EXCEPT !.update = "returned", !.pc = "sendMail"]
  ELSE Finish([task EXCEPT !.update = "returned"], 200)

\* A variant of the catch of updateGoogleSheets that only logs the error:
\* the completed case goes on to the confirmation email.
UpdateCatchSwallowing(task) ==
  IF task.kind = "webhook" /\ task.etype = "checkout.session.completed"
  THEN [task EXCEPT !.update = "threw", !.pc = "sendMail"]
  ELSE WebhookCatch([task EXCEPT !.update = "threw"])

\* The catch of updateGoogleSheets logs the error and throws it again, to
\* the catch of the handler that awaits the update.
UpdateCatch(task) == WebhookCatch([task EXCEPT !.update = "threw"])

\* A variant of the switch without a default case: an event of any other
\* type falls into the expired case.
SwitchCaseWithoutDefault(ty) ==
  IF ty = "checkout.session.completed" THEN ty ELSE "checkout.session.expired"

\* switch (event.type): the case an event type selects.
SwitchCase(ty) ==
  IF ty \in {"checkout.session.completed", "checkout.session.expired"}
  THEN ty ELSE "default"

\* The handler up to its first await, for a request that carries event type
\* ty about session s with a signature that is valid or not: the body
\* parsers, constructEvent, and the event switch.
WebhookArrival(t, s, ty, sig) ==
  LET body == RunMiddleware(WebhookMiddleware(impl), "stream")
      request == [IdleTask EXCEPT !.kind = "webhook", !.sigValid = sig]
      event == [request EXCEPT !.verified = TRUE, !.etype = ty,
                  !.session = s, !.orderRef = s.orderRef]
      case == SwitchCase(ty)
  IN IF ~ConstructEventOk(body, sig)
     THEN /\ tasks' = Arrive(t, Finish(request, 400))
          /\ UNCHANGED clock
     ELSE IF case = "checkout.session.completed" /\ impl = "part_000"
     THEN /\ tasks' = Arrive(t,
               [event EXCEPT !.pc = "retrieve",
                             !.paymentIntentId = s.payment_intent])
          /\ UNCHANGED clock
     ELSE IF case = "checkout.session.completed"
     THEN \E now \in Nows :
            /\ clock' = now
            /\ tasks' = Arrive(t,
                 [event EXCEPT !.pc = "getRows",
                    !.updates = CompletedUpdates(impl, "", s, now)])
     ELSE IF case = "checkout.session.expired"
     THEN \E now \in Nows :
            /\ clock' = now
            /\ tasks' = Arrive(t,
                 [event EXCEPT !.pc = "getRows",
                               !.updates = ExpiredUpdates(now)])
     ELSE /\ tasks' = Arrive(t, Finish(event, 200))
          /\ UNCHANGED clock

\* A webhook request arrives.
StripeWebhook(t) ==
  /\ Serving
  /\ SlotFree(t)
  /\ nCheckouts + nDeliveries + nDirect < limit
  /\ nDeliveries' = nDeliveries + 1
  /\ \E s \in sessions \cup {ForeignSession}, ty \in EventTypes, sig \in BOOLEAN :
       WebhookArrival(t, s, ty, sig)
  /\ UNCHANGED <<impl, process, googleVars, sheet, sessions, outbox, nCheckouts, nDirect, limit>>

\* Stripe has had a success response to a delivery.
Acknowledged ==
  \E u \in TaskIds :
    tasks[u].kind = "webhook" /\ tasks[u].pc = "done" /\ tasks[u].resp = 200

\* Stripe delivers the completed event of a paid session, correctly signed,
\* and delivers it again after every response that is not a success; it
\* waits for the response to one delivery before it makes the next.  The
\* customer pays at the address the checkout route answered with, so the
\* order is stored by then.  The deliveries of such a run are not counted.
StripeRedelivers(t) ==
  /\ Serving
  /\ SlotFree(t)
  /\ \A u \in TaskIds : tasks[u].kind = "webhook" => tasks[u].pc = "done"
  /\ ~Acknowledged
  /\ \E s \in sessions :
       /\ FindRow(sheet, s.orderRef) # 0
       /\ WebhookArrival(t, s, "checkout.session.completed", TRUE)
  /\ UNCHANGED <<impl, process, googleVars, sheet, sessions, outbox, nCheckouts, nDeliveries, nDirect, limit>>

\* A variant of the retrieval whose catch leaves the payment intent id
\* empty, with an updates object that has no fallback to the session.
RetrievePaymentIntentLosingId(t) ==
  /\ tasks[t].kind = "webhook"
  /\ tasks[t].pc = "retrieve"
  /\ \E now \in Nows :
       LET task == tasks[t]
       IN /\ clock' = now
          /\ \/ tasks' = [tasks EXCEPT ![t] =
                  [task EXCEPT !.pc = "getRows",
                     !.paymentIntentId = task.session.payment_intent,
                     !.updates = CompletedUpdates(impl, task.session.payment_intent,
                                                  task.session, now)]]
             \/ tasks' = [tasks EXCEPT ![t] =
                  [task EXCEPT !.pc = "getRows", !.piError = TRUE,
                     !.paymentIntentId = "",
                     !.updates = [status |-> "completed",
                                  stripe_payment_intent_id |-> "",
                                  updated_at |-> now]]]
  /\ UNCHANGED <<impl, process, googleVars, sheet, sessions, outbox, nCheckouts, nDeliveries, nDirect, limit>>

\* await getStripe().paymentIntents.retrieve(session.payment_intent), in its
\* own try/catch; then the updates object is built.
RetrievePaymentIntent(t) ==
  /\ tasks[t].kind = "webhook"
  /\ tasks[t].pc = "retrieve"
  /\ \E now \in Nows :
       LET task == tasks[t]
       IN /\ clock' = now
          /\ \/ tasks' = [tasks EXCEPT ![t] =
                  [task EXCEPT !.pc = "getRows",
                     !.paymentIntentId = task.session.payment_intent,
                     !.updates = CompletedUpdates(impl, task.session.payment_intent,
                                                  task.session, now)]]
             \/ tasks' = [tasks EXCEPT ![t] =
                  [task EXCEPT !.pc = "getRows", !.piError = TRUE,
                     !.updates = CompletedUpdates(impl, task.paymentIntentId,
                                                  task.session, now)]]
  /\ UNCHANGED <<impl, process, googleVars, sheet, sessions, outbox, nCheckouts, nDeliveries, nDirect, limit>>

\* updateGoogleSheets up to row.save(), called by the webhook and by
\* PATCH /api/tickets/:orderReference: the rows are read, the row is found
\* and the updates are set on the row object.
GetRows(t) ==
  /\ tasks[t].kind \in {"webhook", "patch"}
  /\ tasks[t].pc = "getRows"
  /\ \/ LET task == tasks[t]
            idx == FindRow(sheet, task.orderRef)
        IN tasks' = [tasks EXCEPT ![t] =
             IF idx # 0
             THEN [task EXCEPT !.pc = "save", !.rowIdx = idx,
                               !.row = ApplyUpdates(sheet[idx], task.updates)]
             ELSE AfterUpdate(task)]
     \/ tasks' = [tasks EXCEPT ![t] = UpdateCatch(@)]
  /\ UNCHANGED <<impl, process, googleVars, sheet, sessions, outbox, clock, nCheckouts, nDeliveries, nDirect, limit>>

\* await row.save(): the row object is written back as a whole.
RowSave(t) ==
  /\ tasks[t].kind \in {"webhook", "patch"}
  /\ tasks[t].pc = "save"
  /\ \/ /\ sheet' = [sheet EXCEPT ![tasks[t].rowIdx] = tasks[t].row]
        /\ tasks' = [tasks EXCEPT ![t] = AfterUpdate([@ EXCEPT !.saved = TRUE])]
     \/ /\ tasks' = [tasks EXCEPT ![t] = UpdateCatch(@)]
        /\ UNCHANGED sheet
  /\ UNCHANGED <<impl, process, googleVars, sessions, outbox, clock, nCheckouts, nDeliveries, nDirect, limit>>

Delivered(box, ref) == IF ref \in DOMAIN box THEN box[ref] ELSE 0

\* A variant of the email step that puts the row back to pending when the
\* transport rejects the mail.
SendConfirmationEmailRollingBack(t) ==
  /\ tasks[t].kind = "webhook"
  /\ tasks[t].pc = "sendMail"
  /\ \/ /\ outbox' = [r \in DOMAIN outbox \cup {tasks[t].orderRef} |->
                        IF r = tasks[t].orderRef
                        THEN Delivered(outbox, r) + 1 ELSE outbox[r]]
        /\ tasks' = [tasks EXCEPT ![t] = Finish([@ EXCEPT !.mailCalls = @ + 1], 200)]
        /\ UNCHANGED sheet
     \/ /\ tasks' = [tasks EXCEPT ![t] =
             LET failed == [@ EXCEPT !.mailCalls = @ + 1, !.mailFailed = TRUE]
             IN IF EmailCatchRethrows(impl) THEN WebhookCatch(failed)
                ELSE Finish(failed, 200)]
        /\ sheet' = IF tasks[t].rowIdx = 0 THEN sheet
                    ELSE [sheet EXCEPT ![tasks[t].rowIdx] =
                            [@ EXCEPT !.status = "pending",
                                      !.stripe_payment_intent_id = ""]]
        /\ UNCHANGED outbox
  /\ UNCHANGED <<impl, process, googleVars, sessions, clock, nCheckouts, nDeliveries, nDirect, limit>>

\* await sendConfirmationEmail(...), then res.json({received: true}) or the
\* catch block.
SendConfirmationEmail(t) ==
  /\ tasks[t].kind = "webhook"
  /\ tasks[t].pc = "sendMail"
  /\ \/ /\ outbox' = [r \in DOMAIN outbox \cup {tasks[t].orderRef} |->
                        IF r = tasks[t].orderRef
                        THEN Delivered(outbox, r) + 1 ELSE outbox[r]]
        /\ tasks' = [tasks EXCEPT ![t] = Finish([@ EXCEPT !.mailCalls = @ + 1], 200)]
     \/ /\ tasks' = [tasks EXCEPT ![t] =
             LET failed == [@ EXCEPT !.mailCalls = @ + 1, !.mailFailed = TRUE]
             IN IF EmailCatchRethrows(impl) THEN WebhookCatch(failed)
                ELSE Finish(failed, 200)]
        /\ UNCHANGED outbox
  /\ UNCHANGED <<impl, process, googleVars, sheet, sessions, clock, nCheckouts, nDeliveries, nDirect, limit>>

(***************************************************************************)
(* POST /api/tickets and PATCH /api/tickets/:orderReference                *)
(***************************************************************************)
\* req.body of POST /api/tickets: the order reference of a stored order or
\* a new one, any status and any product type; no shipping field.
TicketBodies ==
  {[NoRow EXCEPT !.order_reference = ref, !.status = st, !.product_type = pt,
                 !.customer_email = CustomerEmail] :
     ref \in {sheet[i].order_reference : i \in 1..Len(sheet)} \cup {"MANUAL-1"},
     st \in {"pending", "completed"},
     pt \in {"ticket", "book"}}

\* req.body of PATCH /api/tickets/:orderReference.
PatchBodies == {[status |-> "pending"], [amount_total |-> 1]}

\* POST /api/tickets arrives: addToGoogleSheets(req.body) is called.
PostTickets(t) ==
  /\ Serving
  /\ SlotFree(t)
  /\ nCheckouts + nDeliveries + nDirect < limit
  /\ nDirect' = nDirect + 1
  /\ \E data \in TicketBodies :
       tasks' = Arrive(t, [IdleTask EXCEPT !.kind = "tickets", !.pc = "addRow",
                             !.orderRef = data.order_reference, !.row = data])
  /\ UNCHANGED <<impl, process, googleVars, sheet, sessions, outbox, clock, nCheckouts, nDeliveries, limit>>

\* PATCH /api/tickets/:orderReference arrives: updateGoogleSheets is called
\* with the path parameter and req.body.
PatchTickets(t) ==
  /\ Serving
  /\ SlotFree(t)
  /\ nCheckouts + nDeliveries + nDirect < limit
  /\ nDirect' = nDirect + 1
  /\ \E ref \in {sheet[i].order_reference : i \in 1..Len(sheet)} \cup {"MANUAL-1"},
        updates \in PatchBodies :
       tasks' = Arrive(t, [IdleTask EXCEPT !.kind = "patch", !.pc = "getRows",
                             !.orderRef = ref, !.updates = updates])
  /\ UNCHANGED <<impl, process, googleVars, sheet, sessions, outbox, clock, nCheckouts, nDeliveries, limit>>

\* await getFromGoogleSheets(orderReference), then res.json(updated); an
\* error of the read goes to the catch, which answers 500.
GetFromGoogleSheets(t) ==
  /\ tasks[t].kind = "patch"
  /\ tasks[t].pc = "getFrom"
  /\ \/ LET task == tasks[t]
        IN tasks' = [tasks EXCEPT ![t] =
             [Finish(task, 200) EXCEPT
                !.resOrderRef = IF FindRow(sheet, task.orderRef) = 0 THEN ""
                                ELSE task.orderRef]]
     \/ tasks' = [tasks EXCEPT ![t] = Finish(@, 500)]
  /\ UNCHANGED <<impl, process, googleVars, sheet, sessions, outbox, clock, nCheckouts, nDeliveries, nDirect, limit>>

(***************************************************************************)
(* The specification.                                                      *)
(***************************************************************************)
Init ==
  /\ impl \in Impls
  /\ process = Configured
  /\ GoogleInit
  /\ sheet = <<>>
  /\ sessions = {}
  /\ outbox = <<>>
  /\ clock = 0
  /\ nCheckouts = 0
  /\ nDeliveries = 0
  /\ nDirect = 0
  /\ limit = MaxRequests
  /\ tasks = [t \in TaskIds |-> IdleTask]

Next ==
  \E t \in TaskIds :
    \/ CreateCheckoutSession(t)
    \/ StripeSessionsCreate(t)
    \/ AddToGoogleSheets(t)
    \/ StripeWebhook(t)
    \/ RetrievePaymentIntent(t)
    \/ GetRows(t)
    \/ RowSave(t)
    \/ SendConfirmationEmail(t)

Spec == Init /\ [][Next]_vars

\* Every route that writes to the sheet, in runs of MaxApiRequests requests.
InitApi ==
  /\ impl \in Impls
  /\ process = Configured
  /\ GoogleInit
  /\ sheet = <<>>
  /\ sessions = {}
  /\ outbox = <<>>
  /\ clock = 0
  /\ nCheckouts = 0
  /\ nDeliveries = 0
  /\ nDirect = 0
  /\ limit = MaxApiRequests
  /\ tasks = [t \in TaskIds |-> IdleTask]

NextApi ==
  \E t \in TaskIds :
    \/ CreateCheckoutSession(t)
    \/ CreateTicketCheckoutSession(t)
    \/ CreateBookCheckoutSession(t)
    \/ StripeSessionsCreate(t)
    \/ AddToGoogleSheets(t)
    \/ PostTickets(t)
    \/ PatchTickets(t)
    \/ GetFromGoogleSheets(t)
    \/ StripeWebhook(t)
    \/ RetrievePaymentIntent(t)
    \/ GetRows(t)
    \/ RowSave(t)
    \/ SendConfirmationEmail(t)

SpecApi == InitApi /\ [][NextApi]_vars

\* One checkout on the unified route, whose completed event Stripe delivers
\* until it is acknowledged.
InitRetry ==
  /\ impl \in Impls
  /\ process = Configured
  /\ GoogleInit
  /\ sheet = <<>>
  /\ sessions = {}
  /\ outbox = <<>>
  /\ clock = 0
  /\ nCheckouts = 0
  /\ nDeliveries = 0
  /\ nDirect = 0
  /\ limit = MaxRetryCheckouts
  /\ tasks = [t \in TaskIds |-> IdleTask]

NextRetry ==
  \E t \in TaskIds :
    \/ CreateCheckoutSession(t)
    \/ StripeSessionsCreate(t)
    \/ AddToGoogleSheets(t)
    \/ StripeRedelivers(t)
    \/ RetrievePaymentIntent(t)
    \/ GetRows(t)
    \/ RowSave(t)
    \/ SendConfirmationEmail(t)

\* Every handler goes on after an await, Stripe redelivers, and the calls to
\* the store, made again and again, do not fail for ever.  Nothing is
\* assumed of the mail transport.
RetryFairness ==
  /\ WF_vars(\E t \in TaskIds : StripeRedelivers(t))
  /\ WF_vars(\E t \in TaskIds : RetrievePaymentIntent(t))
  /\ WF_vars(\E t \in TaskIds : SendConfirmationEmail(t))
  /\ SF_vars(\E t \in TaskIds : GetRows(t) /\ tasks'[t].update # "threw")
  /\ SF_vars(\E t \in TaskIds : RowSave(t) /\ tasks'[t].saved)

SpecRetry == InitRetry /\ [][NextRetry]_vars /\ RetryFairness

\* The load of the application file under any configuration, and the
\* unified checkout route after it.
InitStartup ==
  /\ impl \in Impls
  /\ process \in Processes
  /\ GoogleInit
  /\ sheet = <<>>
  /\ sessions = {}
  /\ outbox = <<>>
  /\ clock = 0
  /\ nCheckouts = 0
  /\ nDeliveries = 0
  /\ nDirect = 0
  /\ limit = MaxStartupRequests
  /\ tasks = [t \in TaskIds |-> IdleTask]

NextStartup ==
  \/ LoadModule
  \/ \E t \in TaskIds :
       \/ CreateCheckoutSession(t)
       \/ StripeSessionsCreate(t)
       \/ AddToGoogleSheets(t)

SpecStartup == InitStartup /\ [][NextStartup]_vars

\* The store operations of part_000 as far as they initialize the
\* spreadsheet, with the spreadsheet's configuration set or not.
InitSheets ==
  /\ impl = "part_000"
  /\ process \in {[Configured EXCEPT !.env = e] :
                    e \in {RequiredEnvVars, RequiredEnvVars \ {"GOOGLE_SHEETS_ID"}}}
  /\ GoogleInit
  /\ sheet = <<>>
  /\ sessions = {}
  /\ outbox = <<>>
  /\ clock = 0
  /\ nCheckouts = 0
  /\ nDeliveries = 0
  /\ nDirect = 0
  /\ limit = MaxInitCalls
  /\ tasks = [t \in TaskIds |-> IdleTask]

NextSheets ==
  \E c \in CallIds :
    \/ InitializeGoogleSheets(c)
    \/ UseServiceAccountAuth(c)
    \/ LoadInfo(c)
    \/ UseDoc(c)

SpecSheets == InitSheets /\ [][NextSheets]_vars

(***************************************************************************)
(* Properties.                                                             *)
(***************************************************************************)
Completed == "checkout.session.completed"
Expired == "checkout.session.expired"
Terminal == {"completed", "failed"}

IsWebhook(task) == task.kind = "webhook"

\* The step in which the row.save() of webhook task t is applied.
SaveStep(t) ==
  /\ IsWebhook(tasks[t])
  /\ tasks[t].pc = "save"
  /\ ~tasks[t].saved
  /\ tasks'[t].saved

\* The step in which webhook task t sends its response.
FinishStep(t) ==
  /\ IsWebhook(tasks[t])
  /\ tasks[t].pc \notin {"idle", "done"}
  /\ tasks'[t].pc = "done"

\* The step in which the request of webhook task t arrives.
ArriveStep(t) ==
  /\ tasks[t].pc \in {"idle", "done"}
  /\ tasks'[t] # tasks[t]
  /\ IsWebhook(tasks'[t])

\* The order references of the rows of the sheet.
StoredRefs == {sheet[i].order_reference : i \in 1..Len(sheet)}

\* C1: over any sequence of verified webhook deliveries, a stored order's
\* status changes only from pending to completed or from pending to failed;
\* a completed or failed status never changes again.
C1_StatusLeavesOnlyPending ==
  [][\A t \in TaskIds : SaveStep(t) =>
       \A i \in 1..Len(sheet) :
         sheet'[i].status # sheet[i].status =>
           sheet[i].status = "pending" /\ sheet'[i].status \in Terminal]_vars

\* C2: over any sequence of webhook deliveries for one order, at most one
\* confirmation mail is dispatched for that order.
C2_AtMostOneNotification ==
  \A ref \in StoredRefs : Delivered(outbox, ref) <= 1

\* C3: when the update of a verified completed event is saved on an order
\* that is pending, the order has status completed and a non-empty payment
\* intent id; and a completed delivery that saved its update has called the
\* notifier exactly once when it answers.
C3_CompletedEventCompletesOrder ==
  [][\A t \in TaskIds :
       /\ (SaveStep(t) /\ tasks[t].etype = Completed
             /\ sheet[tasks[t].rowIdx].status = "pending") =>
            LET row == sheet'[FindRow(sheet', tasks[t].orderRef)]
            IN /\ row.status = "completed"
               /\ row.stripe_payment_intent_id # ""
       /\ (FinishStep(t) /\ tasks[t].etype = Completed /\ tasks'[t].saved) =>
            tasks'[t].mailCalls = 1]_vars

C3_Witness ==
  \E t \in TaskIds :
    /\ IsWebhook(tasks[t]) /\ tasks[t].pc = "done"
    /\ tasks[t].etype = Completed /\ tasks[t].saved
    /\ tasks[t].mailCalls = 1 /\ ~tasks[t].mailFailed
    /\ LET i == FindRow(sheet, tasks[t].orderRef)
       IN /\ i # 0
          /\ sheet[i].status = "completed"
          /\ sheet[i].stripe_payment_intent_id # ""
          /\ Delivered(outbox, tasks[t].orderRef) = 1

\* C4: handling a verified event for an order that is already completed or
\* failed changes no stored field of the order.
C4_TerminalOrderUntouched ==
  [][\A t \in TaskIds :
       (SaveStep(t) /\ sheet[tasks[t].rowIdx].status \in Terminal) =>
         sheet'[tasks[t].rowIdx] = sheet[tasks[t].rowIdx]]_vars

\* C5: a verified expired event moves a pending order to failed and sends
\* no notification, and leaves a completed order completed.
C5_ExpiredEvent ==
  [][\A t \in TaskIds :
       (SaveStep(t) /\ tasks[t].etype = Expired) =>
         LET i == tasks[t].rowIdx
         IN /\ sheet[i].status = "pending" =>
                 /\ sheet'[i].status = "failed"
                 /\ outbox' = outbox
                 /\ tasks'[t].pc = "done" /\ tasks'[t].mailCalls = 0
            /\ sheet[i].status = "completed" =>
                 sheet'[i].status = "completed"]_vars

\* C6: a webhook request whose signature does not verify is answered 400
\* in the step in which it arrives, without a store read, a store write or
\* a mail, and the sheet is unchanged.
C6_BadSignatureRejected ==
  [][\A t \in TaskIds :
       (ArriveStep(t) /\ (~tasks'[t].sigValid \/ ~tasks'[t].verified)) =>
         /\ tasks'[t].pc = "done"
         /\ tasks'[t].resp = 400
         /\ tasks'[t].update = "none"
         /\ ~tasks'[t].saved
         /\ tasks'[t].mailCalls = 0
         /\ sheet' = sheet
         /\ outbox' = outbox]_vars

C6_Witness ==
  /\ impl = "part_000"
  /\ \E i \in 1..Len(sheet) : sheet[i].status = "pending"
  /\ \E t \in TaskIds :
       /\ IsWebhook(tasks[t]) /\ tasks[t].pc = "done"
       /\ ~tasks[t].sigValid /\ tasks[t].resp = 400

\* C7: the raw-body parser handles the body of a webhook request before the
\* JSON parser, so a correctly signed event is accepted, not rejected.
C7_SignedEventAccepted ==
  \A t \in TaskIds :
    (IsWebhook(tasks[t]) /\ tasks[t].sigValid) =>
      tasks[t].verified /\ tasks[t].resp # 400

\* C8: the success acknowledgement of a completed or expired event is sent
\* only after the store update has returned; when the store update throws,
\* the response is a failure and no acknowledgement is sent.
C8_AckOnlyAfterStoreUpdate ==
  \A t \in TaskIds :
    (IsWebhook(tasks[t]) /\ tasks[t].etype \in {Completed, Expired}) =>
      /\ tasks[t].resp = 200 => tasks[t].update = "returned"
      /\ tasks[t].update = "threw" =>
           tasks[t].pc = "done" /\ tasks[t].resp = 500

C8_Witness ==
  \E t \in TaskIds :
    /\ IsWebhook(tasks[t]) /\ tasks[t].etype = Completed
    /\ tasks[t].update = "threw" /\ tasks[t].resp = 500

\* C9: when the notification fails after a completed event has updated the
\* order, the failure changes nothing in the sheet: the order keeps status
\* completed and its payment intent id.
C9_NotifierFailureKeepsTransition ==
  [][\A t \in TaskIds :
       (FinishStep(t) /\ tasks'[t].mailFailed) => sheet' = sheet]_vars

C9_Witness ==
  \E t \in TaskIds :
    /\ IsWebhook(tasks[t]) /\ tasks[t].pc = "done"
    /\ tasks[t].saved /\ tasks[t].mailFailed
    /\ LET i == FindRow(sheet, tasks[t].orderRef)
       IN /\ i # 0
          /\ sheet[i].status = "completed"
          /\ sheet[i].stripe_payment_intent_id # ""

\* C10: when the store update of a completed event succeeds and the
\* notification fails, the webhook still answers with the success
\* acknowledgement.
C10_NotifierFailureAcknowledged ==
  \A t \in TaskIds :
    (IsWebhook(tasks[t]) /\ tasks[t].pc = "done"
       /\ tasks[t].update = "returned" /\ tasks[t].mailFailed) =>
      tasks[t].resp = 200

\* A step of the webhook request in slot t, which is in flight.
DeliveryStep(t) ==
  /\ IsWebhook(tasks[t])
  /\ tasks[t].pc \notin {"idle", "done"}
  /\ tasks'[t] # tasks[t]

\* C11: a verified completed or expired event whose metadata carries no
\* order reference fails closed: no step of its handling changes a stored
\* order or hands a mail to the transport.
C11_MissingReferenceFailsClosed ==
  [][\A t \in TaskIds :
       (DeliveryStep(t) /\ tasks[t].verified
          /\ tasks[t].etype \in {Completed, Expired}
          /\ tasks[t].orderRef = Undefined) =>
         sheet' = sheet /\ outbox' = outbox]_vars

\* C12: a verified completed or expired event whose order reference matches
\* no stored order is answered with the success acknowledgement once the
\* lookup has found no row, and no step of its handling changes the sheet.
C12_UnknownOrderAcknowledged ==
  [][\A t \in TaskIds :
       (DeliveryStep(t) /\ tasks[t].verified
          /\ tasks[t].etype \in {Completed, Expired}
          /\ tasks[t].orderRef # Undefined
          /\ FindRow(sheet, tasks[t].orderRef) = 0) =>
         /\ sheet' = sheet
         /\ (tasks'[t].pc = "done" /\ tasks'[t].update = "returned"
               /\ ~tasks'[t].saved) =>
              tasks'[t].resp = 200]_vars

\* The step in which the checkout request in slot t sends its response.
CheckoutFinishStep(t) ==
  /\ tasks[t].kind = "checkout"
  /\ tasks[t].pc \notin {"idle", "done"}
  /\ tasks'[t].pc = "done"

\* C13: when a checkout request is answered with success, the sheet holds a
\* row with status pending whose stripe_session_id is the sessionId of the
\* response and whose order_reference is the orderRef of the response.
C13_SuccessMeansPendingOrder ==
  [][\A t \in TaskIds :
       (CheckoutFinishStep(t) /\ tasks'[t].resp = 200) =>
         \E i \in 1..Len(sheet') :
           /\ sheet'[i].status = "pending"
           /\ sheet'[i].stripe_session_id = tasks'[t].resSessionId
           /\ sheet'[i].order_reference = tasks'[t].resOrderRef]_vars

\* C14: no two rows of the sheet share an order reference.
C14_OrderReferenceUnique ==
  \A i, j \in 1..Len(sheet) :
    i # j => sheet[i].order_reference # sheet[j].order_reference

\* The step in which a checkout request arrives in slot t.
CheckoutArriveStep(t) ==
  /\ tasks[t].pc \in {"idle", "done"}
  /\ tasks'[t] # tasks[t]
  /\ tasks'[t].kind = "checkout"
  /\ nCheckouts' = nCheckouts + 1

ShippingMissing(req) == req.address = "" \/ req.city = "" \/ req.postcode = ""
ShippingSupplied(req) == req.address # "" \/ req.city # "" \/ req.postcode # ""

\* The product a request on the unified route asks for: index.js sells
\* tickets only on that route and does not read productType.
AsksForBook(i, req) == i = "part_000" /\ req.productType = "book"
AsksForTicket(i, req) == i = "index" \/ req.productType = "ticket"

\* C15: whenever a checkout request arrives, on any of the three routes, it
\* is answered 400 if it asks for a book and address, city or postcode is
\* missing, or asks for a ticket and a shipping field is supplied.
C15_ShippingValidated ==
  [][\A t \in TaskIds : CheckoutArriveStep(t) =>
       /\ \A req \in CheckoutRequests :
            (/\ tasks'[t] = UnifiedTask(impl, req, nCheckouts')
             /\ \/ AsksForBook(impl, req) /\ ShippingMissing(req)
                \/ AsksForTicket(impl, req) /\ ShippingSupplied(req)) =>
              tasks'[t].resp = 400
       /\ \A req \in BookCheckoutRequests :
            (tasks'[t] = BookTask(impl, req, nCheckouts')
               /\ ShippingMissing(req)) =>
              tasks'[t].resp = 400
       /\ \A req \in TicketCheckoutRequests :
            (impl = "part_000" /\ tasks'[t] = TicketTask(impl, req, nCheckouts')
               /\ ShippingSupplied(req)) =>
              tasks'[t].resp = 400]_vars

\* C16: a checkout request that validation rejects has no side effects.  A
\* request with a quantity below 1, on a route that sells by quantity, or
\* with an unknown product type, on the route that takes a product type, is
\* answered 400 when it arrives; and a request answered 400 is finished and
\* has left the sessions, the sheet and the outbox as they were.
C16_RejectedRequestNoEffect ==
  [][\A t \in TaskIds : CheckoutArriveStep(t) =>
       /\ tasks'[t].resp = 400 =>
            /\ tasks'[t].pc = "done"
            /\ sessions' = sessions /\ sheet' = sheet /\ outbox' = outbox
       /\ \A req \in CheckoutRequests :
            (/\ tasks'[t] = UnifiedTask(impl, req, nCheckouts')
             /\ \/ req.quantity < 1
                \/ impl = "part_000" /\ req.productType \notin {"ticket", "book"}) =>
              tasks'[t].resp = 400
       /\ \A req \in TicketCheckoutRequests :
            (impl = "part_000" /\ tasks'[t] = TicketTask(impl, req, nCheckouts')
               /\ req.quantity < 1) =>
              tasks'[t].resp = 400
       /\ \A req \in BookCheckoutRequests :
            (impl = "part_000" /\ tasks'[t] = BookTask(impl, req, nCheckouts')
               /\ req.quantity < 1) =>
              tasks'[t].resp = 400]_vars

\* The step in which the checkout request in slot t has its row added.
AddRowStep(t) ==
  /\ tasks[t].kind = "checkout"
  /\ tasks[t].pc = "addRow"
  /\ tasks'[t].pc = "done"
  /\ Len(sheet') = Len(sheet) + 1

\* C17: the amount_total of a row that checkout initiation writes is the
\* amount_total, in pence, of the Stripe session the row names.
C17_StoredAmountIsGatewayAmount ==
  [][\A t \in TaskIds : AddRowStep(t) =>
       LET row == sheet'[Len(sheet')]
       IN \A s \in sessions :
            s.id = row.stripe_session_id => row.amount_total = s.amount_total]_vars

\* C18: two sessions requested for the same product type and the same
\* quantity are requested for the same amount.
C18_AmountFromProductAndQuantity ==
  \A s1, s2 \in sessions :
    (s1.productType = s2.productType /\ s1.quantity = s2.quantity) =>
      s1.amount_total = s2.amount_total

\* C19: when stripe.checkout.sessions.create fails the request is answered
\* with an error and writes no row, then or later; a checkout request
\* changes the sheet only in the step that follows the session's creation,
\* and the row it adds carries the id and the order reference of a session
\* that Stripe holds.
C19_RowOnlyAfterSession ==
  [][\A t \in TaskIds :
       /\ (tasks[t].kind = "checkout" /\ tasks[t].pc = "stripeCreate"
             /\ tasks'[t].pc = "done") =>
            /\ tasks'[t].resp = 500
            /\ sheet' = sheet
            /\ ~\E s \in sessions' : s.orderRef = tasks[t].orderRef
       /\ (tasks[t].kind = "checkout" /\ tasks'[t] # tasks[t]
             /\ sheet' # sheet) => AddRowStep(t)
       /\ AddRowStep(t) =>
            LET row == sheet'[Len(sheet')]
            IN \E s \in sessions :
                 /\ s.id = row.stripe_session_id
                 /\ s.orderRef = row.order_reference]_vars

C19_Witness ==
  /\ \E i \in 1..Len(sheet), s \in sessions :
       /\ sheet[i].status = "pending"
       /\ sheet[i].stripe_session_id = s.id
       /\ sheet[i].order_reference = s.orderRef
  /\ \E t \in TaskIds :
       /\ tasks[t].kind = "checkout" /\ tasks[t].pc = "done"
       /\ tasks[t].resp = 500 /\ tasks[t].orderRef # ""
       /\ ~\E s \in sessions : s.orderRef = tasks[t].orderRef
       /\ FindRow(sheet, tasks[t].orderRef) = 0

\* C20: a row of the sheet, once written, is changed by no step other than
\* the row.save() of a webhook delivery.
C20_OnlyWebhookChangesOrder ==
  [][\A i \in 1..Len(sheet) :
       sheet'[i] # sheet[i] => \E t \in TaskIds : SaveStep(t)]_vars

\* C21: a row whose stripe_payment_intent_id is not empty has status
\* completed.
C21_IntentOnlyWhenCompleted ==
  \A i \in 1..Len(sheet) :
    sheet[i].stripe_payment_intent_id # "" => sheet[i].status = "completed"

\* C22: a PATCH whose updateGoogleSheets found no row for the order
\* reference is answered 404.
C22_PatchUnknownOrderNotFound ==
  \A t \in TaskIds :
    (tasks[t].kind = "patch" /\ tasks[t].pc = "done"
       /\ tasks[t].update = "returned" /\ ~tasks[t].saved) =>
      tasks[t].resp = 404

\* C23: a row has a shipping address, city and postcode if and only if its
\* product_type is book.
C23_ShippingIffBook ==
  \A i \in 1..Len(sheet) :
    (/\ sheet[i].shipping_address # ""
     /\ sheet[i].shipping_city # ""
     /\ sheet[i].shipping_postcode # "") <=> sheet[i].product_type = "book"

\* C24: a verified event whose type is neither completed nor expired is
\* answered with the success acknowledgement in the step in which it
\* arrives, without a store call or a mail, and leaves the sheet and the
\* outbox as they were.
C24_OtherEventIgnored ==
  [][\A t \in TaskIds :
       (ArriveStep(t) /\ tasks'[t].verified
          /\ tasks'[t].etype \notin {Completed, Expired}) =>
         /\ tasks'[t].pc = "done"
         /\ tasks'[t].resp = 200
         /\ tasks'[t].update = "none"
         /\ ~tasks'[t].saved
         /\ tasks'[t].mailCalls = 0
         /\ sheet' = sheet
         /\ outbox' = outbox]_vars

C24_Witness ==
  /\ \E i \in 1..Len(sheet) : sheet[i].status = "pending"
  /\ \E t \in TaskIds :
       /\ IsWebhook(tasks[t]) /\ tasks[t].pc = "done"
       /\ tasks[t].verified /\ tasks[t].etype = "payment_intent.created"
       /\ tasks[t].resp = 200
       /\ FindRow(sheet, tasks[t].orderRef) # 0

\* C25: with Stripe redelivering after every response that is not a success
\* and the store not failing for ever, a stored pending order whose
\* completed event Stripe delivers is eventually completed with the event
\* acknowledged.
C25_CompletedEventuallyAcknowledged ==
  (\E i \in 1..Len(sheet) : sheet[i].status = "pending")
    ~> (/\ Acknowledged
        /\ \A i \in 1..Len(sheet) : sheet[i].status = "completed")

C28_NotifyOnlyAfterUpdate ==
  \A t \in TaskIds :
    (IsWebhook(tasks[t]) /\ tasks[t].etype = Completed) =>
      /\ (tasks[t].pc = "sendMail" \/ tasks[t].mailCalls > 0) =>
            tasks[t].update = "returned"
      /\ tasks[t].update = "threw" => tasks[t].mailCalls = 0

C28_Witness ==
  \E t \in TaskIds :
    /\ IsWebhook(tasks[t]) /\ tasks[t].etype = Completed /\ tasks[t].verified
    /\ tasks[t].pc = "done" /\ tasks[t].update = "threw"
    /\ tasks[t].mailCalls = 0 /\ tasks[t].resp = 500
    /\ FindRow(sheet, tasks[t].orderRef) # 0
    /\ Delivered(outbox, tasks[t].orderRef) = 0

\* C29: a confirmation mail goes out only for an order reference that the
\* sheet holds with status completed at that moment.
C29_NotifyOnlyStoredCompleted ==
  [][\A t \in TaskIds :
       (IsWebhook(tasks[t]) /\ tasks[t].pc = "sendMail" /\ outbox' # outbox) =>
         /\ FindRow(sheet, tasks[t].orderRef) # 0
         /\ sheet[FindRow(sheet, tasks[t].orderRef)].status = "completed"]_vars

\* C30: when the completed and the expired event of one order have been
\* handled concurrently, every store call and the mail accepted, the order
\* is completed with its payment intent and one mail sent, or failed with
\* no payment intent and no mail sent.
C30_CompletedExpiredConsistent ==
  \A t, u \in TaskIds :
    (/\ IsWebhook(tasks[t]) /\ IsWebhook(tasks[u])
     /\ tasks[t].pc = "done" /\ tasks[u].pc = "done"
     /\ tasks[t].etype = Completed /\ tasks[u].etype = Expired
     /\ tasks[t].orderRef = tasks[u].orderRef
     /\ tasks[t].saved /\ tasks[u].saved
     /\ tasks[t].resp = 200 /\ tasks[u].resp = 200
     /\ ~tasks[t].mailFailed) =>
      LET row == sheet[FindRow(sheet, tasks[t].orderRef)]
          mails == Delivered(outbox, tasks[t].orderRef)
      IN \/ /\ row.status = "completed"
            /\ row.stripe_payment_intent_id # ""
            /\ mails = 1
         \/ /\ row.status = "failed"
            /\ row.stripe_payment_intent_id = ""
            /\ mails = 0

\* C27: in a production environment with a required variable missing, the
\* load reports the absence and ends without the handlers being reachable.
C27_MissingConfigPreventsStartup ==
  (/\ process.phase # "start"
   /\ process.NODE_ENV = "production"
   /\ process.env # RequiredEnvVars) =>
    /\ process.reported
    /\ ~Serving

\* C33: when the retrieval of the payment intent fails in the completed
\* case, the handler goes on: the update it asks for sets status completed
\* and the payment intent the session carries, the row it saves holds both,
\* and unless the store update throws the confirmation email comes next.
C33_RetrieveFailureGoesOn ==
  [][\A t \in TaskIds :
       /\ (/\ IsWebhook(tasks[t]) /\ tasks[t].pc = "retrieve"
           /\ tasks'[t] # tasks[t] /\ tasks'[t].piError) =>
            /\ tasks'[t].pc = "getRows"
            /\ tasks'[t].updates.status = "completed"
            /\ tasks'[t].updates.stripe_payment_intent_id =
                 tasks[t].session.payment_intent
       /\ (SaveStep(t) /\ tasks[t].piError) =>
            /\ sheet'[tasks[t].rowIdx].status = "completed"
            /\ sheet'[tasks[t].rowIdx].stripe_payment_intent_id =
                 tasks[t].session.payment_intent
            /\ tasks'[t].pc = "sendMail"
       /\ (/\ IsWebhook(tasks[t]) /\ tasks[t].piError
           /\ tasks[t].pc \in {"getRows", "save"}
           /\ tasks'[t].pc \notin {"getRows", "save", "sendMail"}) =>
            tasks'[t].update = "threw"]_vars

C33_Witness ==
  \E t \in TaskIds :
    /\ IsWebhook(tasks[t]) /\ tasks[t].etype = Completed
    /\ tasks[t].piError /\ tasks[t].saved /\ tasks[t].pc = "sendMail"
    /\ sheet[tasks[t].rowIdx].status = "completed"
    /\ sheet[tasks[t].rowIdx].stripe_payment_intent_id =
         tasks[t].session.payment_intent
    /\ tasks[t].session.payment_intent # ""

\* C31: whenever googleSheetAuthInitialized is true, doc refers to an
\* instance on which useServiceAccountAuth and loadInfo have completed.
C31_FlagMeansAuthenticatedDoc ==
  googleSheetAuthInitialized =>
    /\ doc # 0
    /\ instances[doc].authed
    /\ instances[doc].loaded

====
